---- MODULE Spec2Model ----
(***************************************************************************)
(* Model of the reservation core of hotel_app: the Reservation table, the  *)
(* write path Reservation.save (end_date derivation, full_clean, insert or *)
(* update), deletion of reservations and rooms, and the availability       *)
(* search AvailableRoomFilter.filter_queryset, the reservation form with   *)
(* the booking and update views, and the REST create and update endpoints. *)
(*                                                                         *)
(* Dates are day numbers, timedelta(days=n) is integer addition.           *)
(***************************************************************************)
EXTENDS Integers, FiniteSets, Sequences, TLC

\* ---------------------------------------------------------------- bounds
MaxDay == 2          \* dates are the days 0..MaxDay
MaxLen == 2          \* callers pass length_of_stay in 0..MaxLen
MaxId  == 2          \* at most MaxId reservations are ever inserted

\* ------------------------------------------------------- program values
NULL == -9                        \* SQL NULL / Python None in a nullable column
Rooms == {1, 2}                   \* Room.room_number primary keys
Guests == {1, 2}                  \* Guest.guest_id primary keys
Status == {"RE", "IN", "OT"}      \* Reservation.STATUS_CHOICES
RoomTypeOf(room) == IF room = 1 THEN "STD" ELSE "DLX"   \* Room.room_type
RoomTypes == {RoomTypeOf(room) : room \in Rooms}
MaxGuests == 3                    \* the largest RoomType.maximum_guests
\* room.room_type.maximum_guests
maximum_guests(room) == IF RoomTypeOf(room) = "STD" THEN MaxGuests - 1 ELSE MaxGuests

\* room type codes that match ^[A-Z]{1,3}$: the two in use and a third one
ValidCodes == RoomTypes \cup {"NEW"}

\* a row of the RoomType table: its primary key and its capacity (the name,
\* the price and the amenity flags are columns written like maximum_guests)
RoomTypeRow(code, capacity) == [room_type_code |-> code, maximum_guests |-> capacity]

Days == 0..MaxDay
Lens == 0..MaxLen

VARIABLES
    reservations,   \* rows of the Reservation table
    rooms,          \* primary keys of the rows of the Room table
    guests,         \* primary keys of the rows of the Guest table
    room_types,     \* rows of the RoomType table
    room_type,      \* the room_type column of the Room table, by room number
    nextId,         \* next value of the AutoField reservation_id
    requests,       \* booking requests in flight (concurrent processing)
    session,        \* the search criteria kept in the user's session
    last            \* the operation that ran last, its inputs and its outcome

\* the room catalogue: the RoomType table and the type each room refers to
catalogue == <<room_types, room_type>>

vars ==
    <<reservations, rooms, guests, room_types, room_type, nextId, requests,
      session, last>>

\* ------------------------------------------------------ pure functions

\* start_of_stay + timedelta(days=length_of_stay)
ComputeEndDate(start_of_stay, length_of_stay) == start_of_stay + length_of_stay

\* SQL comparison against a nullable column: NULL compares as unknown (no match)
SqlGt(col, value) == col # NULL /\ col > value
SqlLt(col, value) == col # NULL /\ col < value

\* the overlap query without .exclude(pk=self.pk)
overlapping_reservations_no_exclude(table, self) ==
    { r \in table :
        /\ r.room_number = self.room_number
        /\ SqlLt(r.start_of_stay,
                 ComputeEndDate(self.start_of_stay, self.length_of_stay))
        /\ SqlGt(r.end_date, self.start_of_stay) }

\* the overlap query with closed bounds (start_of_stay__lte, end_date__gte)
overlapping_reservations_inclusive(table, self) ==
    { r \in table :
        /\ r.room_number = self.room_number
        /\ r.start_of_stay # NULL
        /\ r.start_of_stay <= ComputeEndDate(self.start_of_stay, self.length_of_stay)
        /\ r.end_date # NULL
        /\ r.end_date >= self.start_of_stay
        /\ r.reservation_id # self.reservation_id }

\* the overlap query without the room_number filter
overlapping_reservations_any_room(table, self) ==
    { r \in table :
        /\ SqlLt(r.start_of_stay,
                 ComputeEndDate(self.start_of_stay, self.length_of_stay))
        /\ SqlGt(r.end_date, self.start_of_stay)
        /\ r.reservation_id # self.reservation_id }

\* Reservation.validate_to_detect_overlapping_reservation: the queryset
\* filter(room_number=, start_of_stay__lt=, end_date__gt=).exclude(pk=self.pk)
overlapping_reservations(table, self) ==
    { r \in table :
        /\ r.room_number = self.room_number
        /\ SqlLt(r.start_of_stay,
                 ComputeEndDate(self.start_of_stay, self.length_of_stay))
        /\ SqlGt(r.end_date, self.start_of_stay)
        /\ r.reservation_id # self.reservation_id }

\* validate_to_detect_overlapping_reservation raises ValidationError
validate_to_detect_overlapping_reservation(table, self) ==
    overlapping_reservations(table, self) # {}

\* validate_guest_count without the comparison against the capacity
validate_guest_count_no_capacity(self) ==
    self.number_of_guests < 1

\* validate_guest_count raises ValidationError
validate_guest_count(self) ==
    \/ self.number_of_guests > maximum_guests(self.room_number)
    \/ self.number_of_guests < 1

\* validate_payment without the comparison against the price
validate_payment_negative_only(amount_paid, total_price) ==
    amount_paid < 0

\* validate_payment raises ValidationError
validate_payment(amount_paid, total_price) ==
    \/ amount_paid < 0
    \/ amount_paid > total_price

\* Reservation.clean: the first validator that raises ends clean()
clean(table, self) ==
    IF self.room_number # NULL /\ validate_guest_count(self) THEN {"number_of_guests"}
    ELSE IF validate_payment(self.amount_paid, self.price) THEN {"amount_paid"}
    ELSE IF validate_to_detect_overlapping_reservation(table, self) THEN {"overlap"}
    ELSE {}

\* Model.clean_fields for the fields of Reservation the model carries:
\* room_number and guest are ForeignKeys with blank=False to an existing row,
\* length_of_stay and number_of_guests are PositiveSmallIntegerFields
clean_fields(existing, self) ==
    (IF self.room_number = NULL \/ self.room_number \notin existing
        THEN {"room_number"} ELSE {})
    \cup (IF self.guest = NULL \/ self.guest \notin guests THEN {"guest"} ELSE {})
    \cup (IF self.length_of_stay < 0 THEN {"length_of_stay"} ELSE {})
    \cup (IF self.number_of_guests < 0 THEN {"number_of_guests"} ELSE {})
    \cup (IF self.status_code \notin Status THEN {"status_code"} ELSE {})

\* Model.full_clean: clean_fields and clean both run, their errors are merged
full_clean(table, existing, self) ==
    clean_fields(existing, self) \cup clean(table, self)

\* save() keeping an end_date the instance already carries
derive_end_date_keep_supplied(self) ==
    IF self.length_of_stay # 0 /\ self.end_date = NULL
        THEN [self EXCEPT !.end_date =
                  ComputeEndDate(self.start_of_stay, self.length_of_stay)]
        ELSE self

\* Reservation.save, first statement: derive end_date when length_of_stay is truthy
derive_end_date(self) ==
    IF self.length_of_stay # 0
        THEN [self EXCEPT !.end_date =
                  ComputeEndDate(self.start_of_stay, self.length_of_stay)]
        ELSE self

\* super().save(): insert a new row, or replace the row with the same primary key
super_save(table, self) ==
    { r \in table : r.reservation_id # self.reservation_id } \cup {self}

\* -------------------------------------------------------- input domains

\* a Reservation instance as the caller built it, for the guest 1
Instance(pk, room, start, len, end, status, number_of_guests, paid) ==
    [ reservation_id |-> pk, guest |-> 1, room_number |-> room, start_of_stay |-> start,
      length_of_stay |-> len, end_date |-> end, status_code |-> status,
      number_of_guests |-> number_of_guests, price |-> 1, amount_paid |-> paid ]

\* an end_date the caller may have set on the instance itself: none, or a wrong one
CallerEndDates == {NULL, MaxDay + 1}

\* Reservation(...) as Reservation.objects.create, the booking view or the
\* REST create endpoint builds it (no primary key yet): any stay, and the
\* values of the other validated fields that pass and that fail
NewInstances ==
    { Instance(NULL, room, start, len, end, "RE", 1, 0) :
        room \in Rooms, start \in Days, len \in Lens, end \in CallerEndDates }
    \cup { Instance(NULL, 1, 0, len, NULL, "RE", count, paid) :
        len \in {-1, 1}, count \in {1, 3}, paid \in {0, 2} }
    \cup { Instance(NULL, NULL, 0, 1, NULL, "RE", 1, 0) }

\* a stored row r loaded and changed by the caller before save():
\* its stay (room and dates), its end_date, or its guests and payment
ChangedInstances(r) ==
    { [r EXCEPT !.room_number = room, !.start_of_stay = start,
                !.length_of_stay = len] :
        room \in Rooms, start \in Days, len \in Lens }
    \cup { [r EXCEPT !.end_date = end] : end \in CallerEndDates }
    \cup { [r EXCEPT !.number_of_guests = count, !.amount_paid = paid] :
        count \in {1, MaxGuests + 1}, paid \in {0, 2} }

Procs == {1, 2}                  \* concurrently processed booking requests
Idle == [pc |-> "idle", self |-> NULL]
NoOp == [op |-> "none", self |-> NULL, errors |-> {}]

\* search criteria with no parameter given: a request without a query string,
\* a session in which no search was made yet
NoCriteria == [start_date |-> NULL, length_of_stay |-> NULL, room_type |-> ""]

\* ----------------------------------------------------------------- Init

Init ==
    /\ reservations = {}
    /\ rooms = Rooms
    /\ guests = Guests
    /\ room_types = { RoomTypeRow(RoomTypeOf(room), maximum_guests(room)) : room \in Rooms }
    /\ room_type = [room \in Rooms |-> RoomTypeOf(room)]
    /\ nextId = 1
    /\ requests = [p \in Procs |-> Idle]
    /\ session = NoCriteria
    /\ last = NoOp

\* ------------------------------------------------------------ operations

\* save() writing the row before full_clean raises
save_write_first(table, existing, pk, instance) ==
    LET self   == derive_end_date(instance)
        errors == full_clean(table, existing, self)
        stored == [self EXCEPT !.reservation_id = pk]
    IN  [self |-> IF errors = {} THEN stored ELSE self, errors |-> errors,
         table |-> super_save(table, stored)]

\* Reservation.save on an instance: derive end_date, full_clean, then write.
\* The result is <<the instance after save, the errors raised, the table>>.
save(table, existing, pk, instance) ==
    LET self   == derive_end_date(instance)
        errors == full_clean(table, existing, self)
        stored == [self EXCEPT !.reservation_id = pk]
    IN  IF errors = {}
            THEN [self |-> stored, errors |-> {}, table |-> super_save(table, stored)]
            ELSE [self |-> self, errors |-> errors, table |-> table]

\* Reservation.objects.create(...) / Reservation(...).save(): a new row
ReservationCreate(instance) ==
    /\ nextId <= MaxId
    /\ LET res == save(reservations, rooms, nextId, instance)
       IN  /\ reservations' = res.table
           /\ nextId' = IF res.errors = {} THEN nextId + 1 ELSE nextId
           /\ last' = [op |-> "create", self |-> res.self, errors |-> res.errors]
    /\ UNCHANGED <<rooms, requests, guests, catalogue, session>>

\* load a stored reservation, change it, save() it
ReservationUpdate(r, instance) ==
    /\ r \in reservations
    /\ LET res == save(reservations, rooms, r.reservation_id, instance)
       IN  /\ reservations' = res.table
           /\ last' = [op |-> "update", self |-> res.self, errors |-> res.errors]
    /\ UNCHANGED <<rooms, nextId, requests, guests, catalogue, session>>

\* reservation.delete()
ReservationDelete(r) ==
    /\ r \in reservations
    /\ reservations' = reservations \ {r}
    /\ last' = [op |-> "delete", self |-> r, errors |-> {}]
    /\ UNCHANGED <<rooms, nextId, requests, guests, catalogue, session>>

\* room.delete() with on_delete=CASCADE: the reservations of the room go with it
RoomDelete_cascade(room) ==
    /\ room \in rooms
    /\ rooms' = rooms \ {room}
    /\ reservations' = { r \in reservations : r.room_number # room }
    /\ last' = [op |-> "room_delete", self |-> room, errors |-> {}]
    /\ UNCHANGED <<nextId, requests, guests, catalogue, session>>

\* room.delete(): on_delete=SET_NULL clears room_number of its reservations
RoomDelete(room) ==
    /\ room \in rooms
    /\ rooms' = rooms \ {room}
    /\ reservations' =
         { IF r.room_number = room THEN [r EXCEPT !.room_number = NULL] ELSE r :
             r \in reservations }
    /\ last' = [op |-> "room_delete", self |-> room, errors |-> {}]
    /\ UNCHANGED <<nextId, requests, guests, catalogue, session>>

\* a room is created (again) under a room number
RoomCreate(room) ==
    /\ room \in Rooms \ rooms
    /\ rooms' = rooms \cup {room}
    /\ last' = [op |-> "room_create", self |-> room, errors |-> {}]
    /\ UNCHANGED <<reservations, nextId, requests, guests, catalogue, session>>

\* guest.delete(): on_delete=SET_NULL clears guest of the guest's reservations
GuestDelete(guest) ==
    /\ guest \in guests
    /\ guests' = guests \ {guest}
    /\ reservations' =
         { IF r.guest = guest THEN [r EXCEPT !.guest = NULL] ELSE r :
             r \in reservations }
    /\ last' = [op |-> "guest_delete", self |-> guest, errors |-> {}]
    /\ UNCHANGED <<rooms, nextId, requests, catalogue, session>>

\* SQL "x NOT IN (subquery)": unknown, so no match, when the subquery yields a NULL
SqlNotIn(value, subquery) == value \notin subquery /\ NULL \notin subquery

\* a filter_queryset without the room type filter
filter_queryset_any_type(table, existing, data) ==
    IF data.start_date # NULL /\ data.length_of_stay # NULL
      THEN LET end_date_for_filter ==
                 ComputeEndDate(data.start_date, data.length_of_stay)
               reserved_rooms ==
                 { r.room_number :
                     r \in { x \in table :
                               /\ SqlLt(x.start_of_stay, end_date_for_filter)
                               /\ SqlGt(x.end_date, data.start_date) } }
           IN  { room \in existing : SqlNotIn(room, reserved_rooms) }
      ELSE existing

\* AvailableRoomFilter.filter_queryset over Room.objects.all(); a parameter the
\* request leaves out is NULL or '' (falsy), one it gives is a non-empty string
filter_queryset(table, existing, data) ==
    LET dated ==
          IF data.start_date # NULL /\ data.length_of_stay # NULL
            THEN LET end_date_for_filter ==
                       ComputeEndDate(data.start_date, data.length_of_stay)
                     reserved_rooms ==
                       { r.room_number :
                           r \in { x \in table :
                                     /\ SqlLt(x.start_of_stay, end_date_for_filter)
                                     /\ SqlGt(x.end_date, data.start_date) } }
                 IN  { room \in existing : SqlNotIn(room, reserved_rooms) }
            ELSE existing
    IN  IF data.room_type # ""
          THEN { room \in dated : room_type[room] = data.room_type }
          ELSE dated

\* available_rooms_list_view evaluating the filter for the search criteria;
\* the filter's form has no validator that could reject a criterion, and
\* FilterSet.qs runs filter_queryset whatever the form says: errors is empty
AvailableRooms(data) ==
    /\ last' = [op |-> "search", self |-> data, errors |-> {},
                result |-> filter_queryset(reservations, rooms, data)]
    /\ UNCHANGED <<reservations, rooms, nextId, requests, guests, catalogue, session>>

\* Reservation.save of a booking request processed next to another one, first
\* half: end_date is derived and full_clean runs its overlap query
BookingValidate(p, instance) ==
    /\ requests[p].pc = "idle"
    /\ LET self == derive_end_date(instance)
       IN  requests' = [requests EXCEPT ![p] =
              [pc |-> IF full_clean(reservations, rooms, self) = {}
                        THEN "validated" ELSE "rejected",
               self |-> self]]
    /\ UNCHANGED <<reservations, rooms, nextId, last, guests, catalogue, session>>

\* second half: super().save() inserts the row that passed validation
BookingInsert(p) ==
    /\ requests[p].pc = "validated"
    /\ nextId <= MaxId
    /\ LET stored == [requests[p].self EXCEPT !.reservation_id = nextId]
       IN  /\ reservations' = super_save(reservations, stored)
           /\ requests' = [requests EXCEPT ![p] = [pc |-> "persisted", self |-> stored]]
    /\ nextId' = nextId + 1
    /\ UNCHANGED <<rooms, last, guests, catalogue, session>>

\* --------------------------------------------------- the reservation form

RoomTypePrice == 1               \* room.room_type.price, per night

\* Reservation(): the blank instance a ModelForm without instance= starts from
BlankInstance ==
    [ reservation_id |-> NULL, guest |-> NULL, room_number |-> NULL,
      start_of_stay |-> NULL,
      length_of_stay |-> NULL, end_date |-> NULL, status_code |-> "",
      number_of_guests |-> NULL, price |-> NULL, amount_paid |-> NULL ]

\* initial_data of reservation_create_view for the guest of the URL and the
\* room, the start date and the length of stay selected in the session
CreateInitial(guest, room, start, len) ==
    [ guest |-> guest,
      room_number |-> room, start_of_stay |-> start, length_of_stay |-> len,
      status_code |-> "RE", number_of_guests |-> 1,
      price |-> RoomTypePrice * len, amount_paid |-> 0 ]

\* ModelForm.__init__ with instance=: initial is model_to_dict(instance) over
\* Meta.fields, which has no guest and no room_number key
UpdateInitial(reservation) ==
    [ guest |-> NULL,
      room_number |-> NULL, start_of_stay |-> reservation.start_of_stay,
      length_of_stay |-> reservation.length_of_stay,
      status_code |-> reservation.status_code,
      number_of_guests |-> reservation.number_of_guests,
      price |-> reservation.price, amount_paid |-> reservation.amount_paid ]

\* cleaned_data after the fields are cleaned and ReservationForm.clean has
\* filled, from initial, the values that are None; a field the request does not
\* post is NULL, and the ChoiceField status_code, not posted, cleans to ''
cleaned_data(post, initial) ==
    [ start_of_stay    |-> IF post.start_of_stay = NULL
                             THEN initial.start_of_stay ELSE post.start_of_stay,
      length_of_stay   |-> IF post.length_of_stay = NULL
                             THEN initial.length_of_stay ELSE post.length_of_stay,
      price            |-> IF post.price = NULL THEN initial.price ELSE post.price,
      status_code      |-> post.status_code,
      number_of_guests |-> post.number_of_guests,
      amount_paid      |-> post.amount_paid ]

\* ReservationForm.clean: the errors it adds for the guest count and the payment
form_clean(data, initial, instance) ==
    LET room_number == IF initial.room_number # NULL
                          THEN initial.room_number ELSE instance.room_number
        price == IF data.price # 0 THEN data.price ELSE initial.price
    IN  (IF /\ data.number_of_guests # 0
            /\ room_number # NULL
            /\ \/ data.number_of_guests < 1
               \/ data.number_of_guests > maximum_guests(room_number)
           THEN {"number_of_guests"} ELSE {})
        \cup (IF data.amount_paid < 0 \/ data.amount_paid > price
                THEN {"amount_paid"} ELSE {})

\* construct_instance: the cleaned values of the form's model fields are set
\* on the instance (guest and room_number are not fields of the form)
construct_instance(instance, data) ==
    [ instance EXCEPT !.start_of_stay = data.start_of_stay,
                      !.length_of_stay = data.length_of_stay,
                      !.price = data.price,
                      !.status_code = data.status_code,
                      !.number_of_guests = data.number_of_guests,
                      !.amount_paid = data.amount_paid ]

\* ModelForm._post_clean: instance.full_clean(exclude=...) where the fields
\* that are not on the form (room_number, guest, end_date) and the empty
\* optional ones (status_code '') are excluded from clean_fields; Model.clean
\* runs on the instance as it is
post_clean(table, self) ==
    (IF self.length_of_stay < 0 THEN {"length_of_stay"} ELSE {})
    \cup (IF self.number_of_guests < 0 THEN {"number_of_guests"} ELSE {})
    \cup (IF self.status_code \notin Status \cup {""} THEN {"status_code"} ELSE {})
    \cup clean(table, self)

\* ReservationForm(post, initial=, instance=) after is_valid(): the instance
\* the form constructed and the errors of the form
ReservationForm(table, post, initial, instance) ==
    LET data == cleaned_data(post, initial)
        self == construct_instance(instance, data)
    IN  [ instance |-> self,
          errors |-> form_clean(data, initial, instance) \cup post_clean(table, self) ]

\* ReservationForm.save up to instance.save(): instance.x = instance.x or
\* initial.get('x') for the fields the form shows read-only
form_save(instance, initial) ==
    [ instance EXCEPT
        !.guest          = IF instance.guest # NULL
                             THEN instance.guest ELSE initial.guest,
        !.room_number    = IF instance.room_number # NULL
                             THEN instance.room_number ELSE initial.room_number,
        !.start_of_stay  = IF instance.start_of_stay # NULL
                             THEN instance.start_of_stay ELSE initial.start_of_stay,
        !.length_of_stay = IF instance.length_of_stay \notin {NULL, 0}
                             THEN instance.length_of_stay ELSE initial.length_of_stay,
        !.price          = IF instance.price \notin {NULL, 0}
                             THEN instance.price ELSE initial.price,
        !.status_code    = IF instance.status_code # ""
                             THEN instance.status_code ELSE initial.status_code ]

\* the outcome of a request as the caller sees it: the instance, the errors
\* reported or raised, and whether an exception escaped the view
Outcome(op, self, errors, escaped) ==
    [op |-> op, self |-> self, errors |-> errors, escaped |-> escaped]

\* reservation_create_view, POST: the form is validated, then saved; a
\* ValidationError of Reservation.save is caught and added to the form
reservation_create_view(guest_id, room, start, len, post) ==
    /\ nextId <= MaxId
    /\ guest_id \in guests
    /\ room \in rooms
    /\ LET initial == CreateInitial(guest_id, room, start, len)
           form    == ReservationForm(reservations, post, initial, BlankInstance)
           res     == save(reservations, rooms, nextId,
                           form_save(form.instance, initial))
       IN  IF form.errors # {}
             THEN /\ last' = Outcome("web_create", form.instance, form.errors, FALSE)
                  /\ UNCHANGED <<reservations, nextId>>
             ELSE /\ reservations' = res.table
                  /\ nextId' = IF res.errors = {} THEN nextId + 1 ELSE nextId
                  /\ last' = Outcome("web_create", res.self, res.errors, FALSE)
    /\ UNCHANGED <<rooms, requests, guests, catalogue, session>>

\* reservation_update_view: ?status_code=IN or OT sets the status on the
\* loaded reservation; a GET shows the form, a POST validates and saves it
reservation_update_view(r, method, status_code, post) ==
    /\ r \in reservations
    /\ LET reservation == IF status_code \in {"IN", "OT"}
                            THEN [r EXCEPT !.status_code = status_code] ELSE r
           initial == UpdateInitial(reservation)
           form    == ReservationForm(reservations, post, initial, reservation)
           res     == save(reservations, rooms, r.reservation_id,
                           form_save(form.instance, initial))
       IN  IF method = "GET"
             THEN /\ last' = Outcome("web_update_get", reservation, {}, FALSE)
                  /\ UNCHANGED reservations
             ELSE IF form.errors # {}
               THEN /\ last' = Outcome("web_update", form.instance, form.errors, FALSE)
                    /\ UNCHANGED reservations
               ELSE /\ reservations' = res.table
                    /\ last' = Outcome("web_update", res.self, res.errors, FALSE)
    /\ UNCHANGED <<rooms, nextId, requests, guests, catalogue, session>>

\* ReservationSerialiser.is_valid: the fields ModelSerializer builds from the
\* model (a primary key of an existing room or null, non-negative small
\* integers, a status choice); Model.clean is not run by the serialiser
serialiser_errors(existing, data) ==
    (IF data.room_number # NULL /\ data.room_number \notin existing
        THEN {"room_number"} ELSE {})
    \cup (IF data.guest # NULL /\ data.guest \notin guests THEN {"guest"} ELSE {})
    \cup (IF data.length_of_stay < 0 THEN {"length_of_stay"} ELSE {})
    \cup (IF data.number_of_guests < 0 THEN {"number_of_guests"} ELSE {})
    \cup (IF data.status_code \notin Status THEN {"status_code"} ELSE {})

\* APIReservationListCreate, POST: serialiser errors are answered with 400;
\* serializer.save() calls Reservation.objects.create, and the ValidationError
\* of Reservation.save is not an APIException, so it leaves the view unhandled
APIReservationListCreate(data) ==
    /\ nextId <= MaxId
    /\ LET errors == serialiser_errors(rooms, data)
           res    == save(reservations, rooms, nextId, data)
       IN  IF errors # {}
             THEN /\ last' = Outcome("api_create", data, errors, FALSE)
                  /\ UNCHANGED <<reservations, nextId>>
             ELSE /\ reservations' = res.table
                  /\ nextId' = IF res.errors = {} THEN nextId + 1 ELSE nextId
                  /\ last' = Outcome("api_create", res.self, res.errors, res.errors # {})
    /\ UNCHANGED <<rooms, requests, guests, catalogue, session>>

\* APIReservationRetrieveUpdateDestroy, PUT or PATCH: the validated fields
\* are set on the stored instance, then instance.save()
APIReservationRetrieveUpdateDestroy(r, data) ==
    /\ r \in reservations
    /\ LET errors == serialiser_errors(rooms, data)
           res    == save(reservations, rooms, r.reservation_id, data)
       IN  IF errors # {}
             THEN /\ last' = Outcome("api_update", data, errors, FALSE)
                  /\ UNCHANGED reservations
             ELSE /\ reservations' = res.table
                  /\ last' = Outcome("api_update", res.self, res.errors, res.errors # {})
    /\ UNCHANGED <<rooms, nextId, requests, guests, catalogue, session>>

\* ------------------------------------------- rooms and room types, by user

\* the users a request can be made for: not logged in, logged in without the
\* 'Manager' group, logged in with it
Users == {"anonymous", "staff", "manager"}

\* who asks for the pages of the front desk, and who for the pages that
\* manage the rooms: nobody logged in, or a user who may use them
Desk == {"anonymous", "staff"}
Office == {"anonymous", "manager"}

\* a decorator that lets every request through
login_required_off(user) == TRUE

\* @login_required lets the request through
login_required(user) == user # "anonymous"

\* a test every logged-in user passes
user_passes_test_any(user) == TRUE

\* @user_passes_test(lambda user: user.groups.filter(name='Manager').exists())
user_passes_test(user) == user = "manager"

\* rest_framework.permissions.IsAuthenticated.has_permission
IsAuthenticated(user) == user # "anonymous"

\* IsManager.has_permission
IsManager(user) == user # "anonymous" /\ user = "manager"

\* the answer to a request for the rooms or the room types: what was asked,
\* for whom, by which method and for which record of the URL, how it ended
\* and the records the response shows
Answer(op, user, method, key, outcome, data) ==
    [op |-> op, user |-> user, errors |-> {}, method |-> method, key |-> key,
     outcome |-> outcome, data |-> data]

\* the rows of the Room table, as <<room_number, room_type>>
RoomRows == { <<room, room_type[room]>> : room \in rooms }

\* the codes of the stored room types
RoomTypeCodes == { type.room_type_code : type \in room_types }

\* the row of the RoomType table with the primary key code
RoomTypeGet(code) == { type \in room_types : type.room_type_code = code }

\* Model.save of a RoomType or Room instance: UPDATE the row with the
\* instance's primary key, INSERT when no row has it
RoomTypeSave(row) ==
    { type \in room_types : type.room_type_code # row.room_type_code } \cup {row}

\* the request only shows something, or is answered without a write
Shown(op, user, method, key, outcome, data) ==
    /\ last' = Answer(op, user, method, key, outcome, data)
    /\ UNCHANGED <<reservations, rooms, guests, catalogue, nextId, requests, session>>

\* RoomTypeForm.is_valid for posted data: the code matches ^[A-Z]{1,3}$ and
\* maximum_guests is a PositiveSmallIntegerField; a new instance must have a
\* code no stored row has, an edited one is not checked for that
RoomTypeForm(post, adding) ==
    (IF post.room_type_code \notin ValidCodes THEN {"room_type_code"} ELSE {})
    \cup (IF adding /\ post.room_type_code \in RoomTypeCodes
            THEN {"room_type_code"} ELSE {})
    \cup (IF post.maximum_guests < 0 THEN {"maximum_guests"} ELSE {})

\* room_type_list_view
room_type_list_view(user) ==
    IF ~(login_required(user) /\ user_passes_test(user))
      THEN Shown("room_type_list", user, "GET", "", "login", {})
      ELSE Shown("room_type_list", user, "GET", "", "ok", room_types)

\* room_type_create_view
room_type_create_view(user, method, post) ==
    IF ~(login_required(user) /\ user_passes_test(user))
      THEN Shown("room_type_create", user, method, "", "login", {})
    ELSE IF method = "GET" THEN Shown("room_type_create", user, method, "", "ok", {})
    ELSE IF RoomTypeForm(post, TRUE) # {}
      THEN Shown("room_type_create", user, method, "", "invalid", {})
    ELSE /\ room_types' = RoomTypeSave(post)
         /\ last' = Answer("room_type_create", user, method, "", "saved", {post})
         /\ UNCHANGED <<reservations, rooms, guests, room_type, nextId, requests, session>>

\* room_type_update_view: the form is bound to the stored row, and
\* room_type_code is one of its fields, so form.save() writes the row whose
\* primary key is the posted code
room_type_update_view(user, method, room_type_code, post) ==
    IF ~(login_required(user) /\ user_passes_test(user))
      THEN Shown("room_type_update", user, method, room_type_code, "login", {})
    ELSE IF RoomTypeGet(room_type_code) = {}
      THEN Shown("room_type_update", user, method, room_type_code, "404", {})
    ELSE IF method = "GET"
      THEN Shown("room_type_update", user, method, room_type_code, "ok", RoomTypeGet(room_type_code))
    ELSE IF RoomTypeForm(post, FALSE) # {}
      THEN Shown("room_type_update", user, method, room_type_code, "invalid", RoomTypeGet(room_type_code))
    ELSE /\ room_types' = RoomTypeSave(post)
         /\ last' = Answer("room_type_update", user, method, room_type_code, "saved", {post})
         /\ UNCHANGED <<reservations, rooms, guests, room_type, nextId, requests, session>>

\* room_type_delete_view: on_delete=SET_NULL clears room_type of the rooms
room_type_delete_view(user, method, room_type_code) ==
    IF ~(login_required(user) /\ user_passes_test(user))
      THEN Shown("room_type_delete", user, method, room_type_code, "login", {})
    ELSE IF RoomTypeGet(room_type_code) = {}
      THEN Shown("room_type_delete", user, method, room_type_code, "404", {})
    ELSE IF method = "GET"
      THEN Shown("room_type_delete", user, method, room_type_code, "ok", RoomTypeGet(room_type_code))
    ELSE /\ room_types' = room_types \ RoomTypeGet(room_type_code)
         /\ room_type' = [room \in Rooms |->
                            IF room_type[room] = room_type_code
                              THEN "" ELSE room_type[room]]
         /\ last' = Answer("room_type_delete", user, method, room_type_code, "deleted", {})
         /\ UNCHANGED <<reservations, rooms, guests, nextId, requests, session>>

\* RoomForm.is_valid: room_type is a required choice among the stored room
\* types; a new room must have a number no stored room has
RoomForm(post, adding) ==
    (IF post.room_type \notin RoomTypeCodes THEN {"room_type"} ELSE {})
    \cup (IF adding /\ post.room_number \in rooms THEN {"room_number"} ELSE {})

\* room_list_view
room_list_view(user) ==
    IF ~(login_required(user) /\ user_passes_test(user))
      THEN Shown("room_list", user, "GET", NULL, "login", {})
      ELSE Shown("room_list", user, "GET", NULL, "ok", RoomRows)

\* form.save() of a RoomForm: the row with the posted room number is written;
\* outcome is how the request ends after the write
RoomSave(op, user, method, key, outcome, post) ==
    /\ rooms' = rooms \cup {post.room_number}
    /\ room_type' = [room_type EXCEPT ![post.room_number] = post.room_type]
    /\ last' = Answer(op, user, method, key, outcome, {<<post.room_number, post.room_type>>})
    /\ UNCHANGED <<reservations, guests, room_types, nextId, requests, session>>

\* room_create_view
room_create_view(user, method, post) ==
    IF ~(login_required(user) /\ user_passes_test(user))
      THEN Shown("room_create", user, method, NULL, "login", {})
    ELSE IF method = "GET" THEN Shown("room_create", user, method, NULL, "ok", {})
    ELSE IF RoomForm(post, TRUE) # {} THEN Shown("room_create", user, method, NULL, "invalid", {})
    ELSE RoomSave("room_create", user, method, NULL, "saved", post)

\* room_update_view; the view logs room.room_type.room_type_name, which
\* raises AttributeError for a room whose room type was deleted, and after
\* form.save() it logs updated_room.status, an attribute Room does not have
room_update_view(user, method, room_number, post) ==
    IF ~(login_required(user) /\ user_passes_test(user))
      THEN Shown("room_update", user, method, room_number, "login", {})
    ELSE IF room_number \notin rooms THEN Shown("room_update", user, method, room_number, "404", {})
    ELSE IF room_type[room_number] = "" THEN Shown("room_update", user, method, room_number, "error", {})
    ELSE IF method = "GET"
      THEN Shown("room_update", user, method, room_number, "ok", {<<room_number, room_type[room_number]>>})
    ELSE IF RoomForm(post, FALSE) # {}
      THEN Shown("room_update", user, method, room_number, "invalid", {<<room_number, room_type[room_number]>>})
    ELSE RoomSave("room_update", user, method, room_number, "error", post)

\* room_delete_view: a GET asks for confirmation, a POST deletes the room and
\* clears room_number of its reservations
room_delete_view(user, method, room_number) ==
    IF ~(login_required(user) /\ user_passes_test(user))
      THEN Shown("room_delete", user, method, room_number, "login", {})
    ELSE IF room_number \notin rooms THEN Shown("room_delete", user, method, room_number, "404", {})
    ELSE IF room_type[room_number] = "" THEN Shown("room_delete", user, method, room_number, "error", {})
    ELSE IF method = "GET"
      THEN Shown("room_delete", user, method, room_number, "ok", {<<room_number, room_type[room_number]>>})
    ELSE /\ rooms' = rooms \ {room_number}
         /\ reservations' =
              { IF r.room_number = room_number
                  THEN [r EXCEPT !.room_number = NULL] ELSE r : r \in reservations }
         /\ last' = Answer("room_delete", user, method, room_number, "deleted", {})
         /\ UNCHANGED <<guests, catalogue, nextId, requests, session>>

\* RoomSerialiser.is_valid: room_number carries a UniqueValidator that leaves
\* out the instance being written, room_type must be a stored room type
RoomSerialiser(data, instance) ==
    (IF data.room_type \notin RoomTypeCodes THEN {"room_type"} ELSE {})
    \cup (IF data.room_number \in rooms \ {instance} THEN {"room_number"} ELSE {})

\* RoomTypeSerialiser.is_valid: the validators of the model fields, and the
\* UniqueValidator of room_type_code
RoomTypeSerialiser(data, instance) ==
    (IF data.room_type_code \notin ValidCodes THEN {"room_type_code"} ELSE {})
    \cup (IF data.room_type_code \in RoomTypeCodes \ {instance}
            THEN {"room_type_code"} ELSE {})
    \cup (IF data.maximum_guests < 0 THEN {"maximum_guests"} ELSE {})

\* APIRoomListCreate and APIRoomRetrieveUpdateDestroy: GET lists the rooms,
\* POST creates one, PUT writes and DELETE removes the room of the URL
APIRoom(user, method, room_number, data) ==
    IF ~(IsAuthenticated(user) /\ IsManager(user))
      THEN Shown("api_room", user, method, room_number, "refused", {})
    ELSE IF method = "GET" THEN Shown("api_room", user, method, room_number, "ok", RoomRows)
    ELSE IF method = "POST"
      THEN IF RoomSerialiser(data, NULL) # {} THEN Shown("api_room", user, method, room_number, "invalid", {})
           ELSE RoomSave("api_room", user, method, room_number, "saved", data)
    ELSE IF room_number \notin rooms THEN Shown("api_room", user, method, room_number, "404", {})
    ELSE IF method = "PUT"
      THEN IF RoomSerialiser(data, room_number) # {} THEN Shown("api_room", user, method, room_number, "invalid", {})
           ELSE RoomSave("api_room", user, method, room_number, "saved", data)
    ELSE /\ rooms' = rooms \ {room_number}
         /\ reservations' =
              { IF r.room_number = room_number
                  THEN [r EXCEPT !.room_number = NULL] ELSE r : r \in reservations }
         /\ last' = Answer("api_room", user, method, room_number, "deleted", {})
         /\ UNCHANGED <<guests, catalogue, nextId, requests, session>>

\* APIRoomTypeListCreate and APIRoomTypeRetrieveUpdateDestroy
APIRoomType(user, method, room_type_code, data) ==
    IF ~(IsAuthenticated(user) /\ IsManager(user))
      THEN Shown("api_room_type", user, method, room_type_code, "refused", {})
    ELSE IF method = "GET" THEN Shown("api_room_type", user, method, room_type_code, "ok", room_types)
    ELSE IF method = "POST"
      THEN IF RoomTypeSerialiser(data, "") # {}
             THEN Shown("api_room_type", user, method, room_type_code, "invalid", {})
             ELSE /\ room_types' = RoomTypeSave(data)
                  /\ last' = Answer("api_room_type", user, method, room_type_code, "saved", {data})
                  /\ UNCHANGED <<reservations, rooms, guests, room_type, nextId, requests, session>>
    ELSE IF RoomTypeGet(room_type_code) = {}
      THEN Shown("api_room_type", user, method, room_type_code, "404", {})
    ELSE IF method = "PUT"
      THEN IF RoomTypeSerialiser(data, room_type_code) # {}
             THEN Shown("api_room_type", user, method, room_type_code, "invalid", {})
             ELSE /\ room_types' = RoomTypeSave(data)
                  /\ last' = Answer("api_room_type", user, method, room_type_code, "saved", {data})
                  /\ UNCHANGED <<reservations, rooms, guests, room_type, nextId, requests, session>>
    ELSE /\ room_types' = room_types \ RoomTypeGet(room_type_code)
         /\ room_type' = [room \in Rooms |->
                            IF room_type[room] = room_type_code
                              THEN "" ELSE room_type[room]]
         /\ last' = Answer("api_room_type", user, method, room_type_code, "deleted", {})
         /\ UNCHANGED <<reservations, rooms, guests, nextId, requests, session>>

\* timezone.now().date(), the day the search is made
today == 0

\* the value available_rooms_list_view uses for each criterion: the one of the
\* request, else the one of the session, else today, one night, all types
effective_criteria(get, stored) ==
    [ start_date |->
        IF get.start_date # NULL THEN get.start_date
        ELSE IF stored.start_date # NULL THEN stored.start_date ELSE today,
      length_of_stay |->
        IF get.length_of_stay # NULL THEN get.length_of_stay
        ELSE IF stored.length_of_stay # NULL THEN stored.length_of_stay ELSE 1,
      room_type |->
        IF get.room_type # "" THEN get.room_type ELSE stored.room_type ]

\* available_rooms_list_view: the criteria are written to the session, and
\* the filter is given "request.GET or {the criteria}": the query string as
\* it is whenever it has a parameter
available_rooms_list_view(user, get) ==
    IF ~login_required(user)
      THEN Shown("available_rooms", user, "GET", get, "login", {})
      ELSE LET criteria == effective_criteria(get, session)
               data == IF get # NoCriteria THEN get ELSE criteria
               qs == filter_queryset(reservations, rooms, data)
           IN  /\ session' = criteria
               /\ last' = Answer("available_rooms", user, "GET", get, "ok",
                                 { <<room, room_type[room]>> : room \in qs })
               /\ UNCHANGED <<reservations, rooms, guests, catalogue, nextId, requests>>

\* ------------------------------------ guests and reservations, by user

\* a view under @login_required: the request of a user who is not logged in
\* is redirected to the login page, any other request is handled by the view
login_required_view(user, op, method, view) ==
    IF login_required(user) THEN view
      ELSE Shown(op, user, method, NULL, "login", {})

\* a REST view with permission_classes = [IsAuthenticated]
permission_classes_view(user, op, method, view) ==
    IF IsAuthenticated(user) THEN view
      ELSE Shown(op, user, method, NULL, "refused", {})

\* the pages under @login_required that show a form or a page and are not
\* modelled further, with the table each one reads
Pages ==
    { "logout", "home", "guest_create", "guest_update",
      "available_rooms_reserve", "available_rooms_guest_selection",
      "reservation_confirmed" }

PageData(op) ==
    IF op \in {"guest_update", "available_rooms_guest_selection"} THEN guests
    ELSE IF op = "reservation_confirmed" THEN reservations
    ELSE IF op = "available_rooms_reserve" THEN rooms
    ELSE {}

\* logout_view, home_view, guest_create_view, guest_update_view,
\* available_rooms_reserve_view, available_rooms_guest_selection_view and
\* reservation_confirmed_view, requested with GET
page_view(user, op) ==
    login_required_view(user, op, "GET",
        Shown(op, user, "GET", NULL, "ok", PageData(op)))

\* login_view and api_root have no decorator and no permission class: the
\* login form, and the links to the four list endpoints, for everybody
open_view(user, op) == Shown(op, user, "GET", NULL, "ok", {})

\* guest_list_view
guest_list_view(user) ==
    login_required_view(user, "guest_list", "GET",
        Shown("guest_list", user, "GET", NULL, "ok", guests))

\* a guest_delete_view that deletes on every request, whatever its method
guest_delete_view_any_method(user, method, guest_id) ==
    login_required_view(user, "guest_delete", method,
        IF guest_id \notin guests
          THEN Shown("guest_delete", user, method, guest_id, "error", {})
        ELSE /\ guests' = guests \ {guest_id}
             /\ reservations' =
                  { IF r.guest = guest_id THEN [r EXCEPT !.guest = NULL] ELSE r :
                      r \in reservations }
             /\ last' = Answer("guest_delete", user, method, guest_id, "deleted", {})
             /\ UNCHANGED <<rooms, catalogue, nextId, requests, session>>)

\* guest_delete_view: Guest.DoesNotExist is raised again; a GET asks for
\* confirmation, a POST deletes the guest and clears guest of the reservations
guest_delete_view(user, method, guest_id) ==
    login_required_view(user, "guest_delete", method,
        IF guest_id \notin guests
          THEN Shown("guest_delete", user, method, guest_id, "error", {})
        ELSE IF method # "POST"
          THEN Shown("guest_delete", user, method, guest_id, "ok", {guest_id})
        ELSE /\ guests' = guests \ {guest_id}
             /\ reservations' =
                  { IF r.guest = guest_id THEN [r EXCEPT !.guest = NULL] ELSE r :
                      r \in reservations }
             /\ last' = Answer("guest_delete", user, method, guest_id, "deleted", {})
             /\ UNCHANGED <<rooms, catalogue, nextId, requests, session>>)

\* reservation_list_view
reservation_list_view(user) ==
    login_required_view(user, "reservation_list", "GET",
        Shown("reservation_list", user, "GET", NULL, "ok", reservations))

\* reservation_delete_view: a GET asks for confirmation, a POST deletes
reservation_delete_view(user, method, reservation_id) ==
    login_required_view(user, "reservation_delete", method,
        LET found == { r \in reservations : r.reservation_id = reservation_id }
        IN  IF found = {}
              THEN Shown("reservation_delete", user, method, reservation_id, "error", {})
            ELSE IF method # "POST"
              THEN Shown("reservation_delete", user, method, reservation_id, "ok", found)
            ELSE /\ reservations' = reservations \ found
                 /\ last' = Answer("reservation_delete", user, method,
                                   reservation_id, "deleted", {})
                 /\ UNCHANGED <<rooms, guests, catalogue, nextId, requests, session>>)

\* APIGuestListCreate and APIGuestRetrieveUpdateDestroy: GET lists the guests,
\* DELETE removes the guest of the URL
APIGuest(user, method, guest_id) ==
    permission_classes_view(user, "api_guest", method,
        IF method = "GET" THEN Shown("api_guest", user, method, NULL, "ok", guests)
        ELSE IF guest_id \notin guests
          THEN Shown("api_guest", user, method, guest_id, "404", {})
        ELSE /\ guests' = guests \ {guest_id}
             /\ reservations' =
                  { IF r.guest = guest_id THEN [r EXCEPT !.guest = NULL] ELSE r :
                      r \in reservations }
             /\ last' = Answer("api_guest", user, method, guest_id, "deleted", {})
             /\ UNCHANGED <<rooms, catalogue, nextId, requests, session>>)

\* APIReservationListCreate, GET: the stored reservations
APIReservationList(user) ==
    permission_classes_view(user, "api_reservation", "GET",
        Shown("api_reservation", user, "GET", NULL, "ok", reservations))

\* the search criteria a request can carry
Searches ==
    { [start_date |-> start, length_of_stay |-> len, room_type |-> type] :
        start \in Days, len \in 1..MaxLen, type \in RoomTypes \cup {""} }
    \cup { [start_date |-> NULL, length_of_stay |-> NULL, room_type |-> type] :
        type \in RoomTypes \cup {""} }
    \cup { [start_date |-> start, length_of_stay |-> len, room_type |-> ""] :
        start \in Days, len \in {-1, 0} }

\* bookings as the booking flow and the REST create endpoint make them
Bookings ==
    { Instance(NULL, room, start, len, NULL, "RE", 1, 0) :
        room \in Rooms, start \in Days, len \in 1..MaxLen }

\* a stored row r whose status the caller changed before save()
StatusChanges(r) == { [r EXCEPT !.status_code = status] : status \in Status }

\* the fields a POST to the reservation form carries
Post(start, len, price, status, count, paid) ==
    [ start_of_stay |-> start, length_of_stay |-> len, price |-> price,
      status_code |-> status, number_of_guests |-> count, amount_paid |-> paid ]

\* POST data of the reservation form: what a browser sends (the disabled
\* inputs are left out, guests and payment are typed in), a request that also
\* posts a status, and guests or a payment that cannot be accepted
Posts ==
    { Post(NULL, NULL, NULL, status, 1, 0) : status \in Status \cup {""} }
    \cup { Post(NULL, NULL, NULL, "", MaxGuests + 1, 0),
           Post(NULL, NULL, NULL, "", 1, RoomTypePrice * MaxLen + 1) }

\* POST data that carries values for the inputs the form shows disabled: a
\* status, a start date and a length of stay, a price; and what a browser sends
FormPosts ==
    { Post(NULL, NULL, NULL, "", 1, 0),
      Post(NULL, NULL, NULL, "OT", 1, 0),
      Post(1, MaxLen, NULL, "", 1, 0),
      Post(NULL, NULL, RoomTypePrice + 1, "", 1, 0) }

\* what a browser posts from the reservation form as it is shown
BrowserPost == Post(NULL, NULL, NULL, "", 1, 0)

\* the method and the status_code query parameter of a request to
\* reservation_update_view
StatusRequests ==
    { [method |-> "GET", status_code |-> status_code] :
        status_code \in {"", "IN", "OT"} }
    \cup { [method |-> "POST", status_code |-> "IN"] }

\* requests to reservation_update_view: a GET or a POST, with or without the
\* status_code query parameter
UpdateRequests ==
    { [method |-> "GET", status_code |-> status_code,
       post |-> Post(NULL, NULL, NULL, "", 1, 0)] : status_code \in {"", "IN", "OT"} }
    \cup { [method |-> "POST", status_code |-> status_code, post |-> post] :
        status_code \in {"", "IN", "OT"}, post \in Posts }

\* request data of the REST create endpoint: a booking with any status, and
\* bookings whose guests or payment cannot be accepted
ApiBookings ==
    { [Instance(NULL, room, start, len, NULL, status, 1, 0)
          EXCEPT !.price = RoomTypePrice * len] :
        room \in Rooms, start \in Days, len \in 1..MaxLen, status \in Status }
    \cup { Instance(NULL, 1, 0, 1, NULL, "RE", count, paid) :
        count \in {1, MaxGuests + 1}, paid \in {0, RoomTypePrice * MaxLen + 1} }

\* request data of the REST update endpoint for the stored row r: another
\* status, another start date, or guests or a payment that cannot be accepted
ApiChanges(r) ==
    { [r EXCEPT !.status_code = status] : status \in Status }
    \cup { [r EXCEPT !.start_of_stay = start] : start \in Days }
    \cup { [r EXCEPT !.number_of_guests = MaxGuests + 1],
           [r EXCEPT !.amount_paid = RoomTypePrice * MaxLen + 1] }

\* new reservations of one night that differ in their guests and payment:
\* every guest count from below 1 to above the largest capacity, every
\* payment from a negative one to one above the price (Instance has price 1)
FieldInstances ==
    { Instance(NULL, room, 0, 1, NULL, "RE", count, 0) :
        room \in Rooms, count \in -1..(MaxGuests + 1) }
    \cup { Instance(NULL, room, 0, 1, NULL, "RE", 1, paid) :
        room \in Rooms, paid \in -1..2 }

\* a stored row r saved again with another room, guest count, payment or price
FieldChanges(r) ==
    { [r EXCEPT !.room_number = room] : room \in Rooms }
    \cup { [r EXCEPT !.number_of_guests = count] : count \in -1..(MaxGuests + 1) }
    \cup { [r EXCEPT !.amount_paid = paid] : paid \in -1..2 }
    \cup { [r EXCEPT !.price = price] : price \in {0, 1} }

\* bookings of one night made for either guest
RefBookings ==
    { [Instance(NULL, room, start, 1, NULL, "RE", 1, 0) EXCEPT !.guest = guest] :
        guest \in Guests, room \in Rooms, start \in Days }

\* posted room type data: the first code with either capacity, the other
\* codes and one that does not match the pattern with the largest capacity
RoomTypePosts ==
    { RoomTypeRow("STD", capacity) : capacity \in {MaxGuests - 1, MaxGuests} }
    \cup { RoomTypeRow(code, MaxGuests) : code \in {"DLX", "NEW", "bad"} }

\* posted room data: the number of the first room and the code of a room type
RoomPosts ==
    { [room_number |-> 1, room_type |-> code] : code \in {"STD", "NEW"} }

\* sequential use of the reservation write path
Next ==
    \/ \E instance \in NewInstances : ReservationCreate(instance)
    \/ \E r \in reservations : \E instance \in ChangedInstances(r) :
          ReservationUpdate(r, instance)
    \/ \E r \in reservations : ReservationDelete(r)

Spec == Init /\ [][Next]_vars

\* bookings, status changes, room administration and availability searches
NextAvail ==
    \/ \E instance \in Bookings : ReservationCreate(instance)
    \/ \E r \in reservations : \E instance \in StatusChanges(r) :
          ReservationUpdate(r, instance)
    \/ \E room \in Rooms : RoomDelete(room)
    \/ \E room \in Rooms : RoomCreate(room)
    \/ \E data \in Searches : AvailableRooms(data)

SpecAvail == Init /\ [][NextAvail]_vars

\* two booking requests processed concurrently, statement by statement
NextConc ==
    \/ \E p \in Procs : \E instance \in Bookings : BookingValidate(p, instance)
    \/ \E p \in Procs : BookingInsert(p)

SpecConc == Init /\ [][NextConc]_vars

\* bookings and changes of reservations through the web views and the REST API
NextViews ==
    \/ \E room \in Rooms : \E start \in Days : \E len \in 1..MaxLen :
          \E post \in Posts : reservation_create_view(1, room, start, len, post)
    \/ \E r \in reservations : \E request \in UpdateRequests :
          reservation_update_view(r, request.method, request.status_code, request.post)
    \/ \E data \in ApiBookings : APIReservationListCreate(data)
    \/ \E r \in reservations : \E data \in ApiChanges(r) :
          APIReservationRetrieveUpdateDestroy(r, data)

SpecViews == Init /\ [][NextViews]_vars

\* bookings and updates through the reservation form, by requests that post
\* values for the disabled inputs
NextForm ==
    \/ \E room \in Rooms : \E start \in Days : \E post \in FormPosts :
          reservation_create_view(1, room, start, 1, post)
    \/ \E r \in reservations : \E status_code \in {"", "IN"} :
          \E post \in FormPosts : reservation_update_view(r, "POST", status_code, post)

SpecForm == Init /\ [][NextForm]_vars

\* query strings of the availability search: each parameter given or left out
Gets ==
    { [start_date |-> start, length_of_stay |-> len, room_type |-> type] :
        start \in Days \cup {NULL}, len \in 1..MaxLen \cup {NULL},
        type \in RoomTypes \cup {""} }

\* searches for available rooms, one after the other in one session, between
\* bookings
NextSearch ==
    \/ \E user \in Desk : \E get \in Gets : available_rooms_list_view(user, get)
    \/ \E room \in Rooms : \E start \in Days :
          ReservationCreate(Instance(NULL, room, start, 1, NULL, "RE", 1, 0))

SpecSearch == Init /\ [][NextSearch]_vars

\* saves that differ in the guest count, the payment and the price
NextFields ==
    \/ \E instance \in FieldInstances : ReservationCreate(instance)
    \/ \E r \in reservations : \E instance \in FieldChanges(r) :
          ReservationUpdate(r, instance)

SpecFields == Init /\ [][NextFields]_vars

\* bookings, and deletion of the rooms and guests they refer to
NextRefs ==
    \/ \E instance \in RefBookings : ReservationCreate(instance)
    \/ \E room \in Rooms : RoomDelete(room)
    \/ \E guest \in Guests : GuestDelete(guest)

SpecRefs == Init /\ [][NextRefs]_vars

\* requests for a page or an endpoint: for the users who are not managers
\* every method, with one record and one body, which the guards never read;
\* for the manager every method and record, and every body with the methods
\* that read it
Requests(methods, writing, keys, bodies) ==
    LET key0 == CHOOSE key \in keys : TRUE
        body0 == CHOOSE body \in bodies : TRUE
    IN  { [user |-> user, method |-> method, key |-> key0, body |-> body0] :
            user \in Users \ {"manager"}, method \in methods }
        \cup { [user |-> "manager", method |-> method, key |-> key, body |-> body0] :
                 method \in methods \ writing, key \in keys }
        \cup { [user |-> "manager", method |-> method, key |-> key, body |-> body] :
                 method \in writing, key \in keys, body \in bodies }

\* administration of the rooms and the room types, by any user
NextAdmin ==
    \/ \E user \in Users : room_type_list_view(user)
    \/ \E q \in Requests({"GET", "POST"}, {"POST"}, {"STD"}, RoomTypePosts) :
          room_type_create_view(q.user, q.method, q.body)
    \/ \E q \in Requests({"GET", "POST"}, {"POST"}, ValidCodes, RoomTypePosts) :
          room_type_update_view(q.user, q.method, q.key, q.body)
    \/ \E q \in Requests({"GET", "POST"}, {}, ValidCodes, RoomTypePosts) :
          room_type_delete_view(q.user, q.method, q.key)
    \/ \E user \in Users : room_list_view(user)
    \/ \E q \in Requests({"GET", "POST"}, {"POST"}, {1}, RoomPosts) :
          room_create_view(q.user, q.method, q.body)
    \/ \E q \in Requests({"GET", "POST"}, {"POST"}, Rooms, RoomPosts) :
          room_update_view(q.user, q.method, q.key, q.body)
    \/ \E q \in Requests({"GET", "POST"}, {}, Rooms, RoomPosts) :
          room_delete_view(q.user, q.method, q.key)
    \/ \E q \in Requests({"GET", "POST", "PUT", "DELETE"}, {"POST", "PUT"}, Rooms, RoomPosts) :
          APIRoom(q.user, q.method, q.key, q.body)
    \/ \E q \in Requests({"GET", "POST", "PUT", "DELETE"}, {"POST", "PUT"}, ValidCodes, RoomTypePosts) :
          APIRoomType(q.user, q.method, q.key, q.body)
    \/ \E user \in Users : available_rooms_list_view(user, NoCriteria)

SpecAdmin == Init /\ [][NextAdmin]_vars

\* every page and endpoint, requested without a login and by a user who may
\* use it; the requests that write are few, to keep the tables small
NextAuth ==
    \/ \E user \in Desk : \E op \in {"login", "api_root"} : open_view(user, op)
    \/ \E user \in Desk : \E op \in Pages : page_view(user, op)
    \/ \E user \in Desk : guest_list_view(user)
    \/ \E user \in Desk : \E method \in {"GET", "POST"} :
          guest_delete_view(user, method, 2)
    \/ \E user \in Desk : available_rooms_list_view(user, NoCriteria)
    \/ \E user \in Desk : reservation_list_view(user)
    \/ \E user \in Desk : \E room \in Rooms :
          login_required_view(user, "web_create", "POST",
              reservation_create_view(1, room, 0, 1, BrowserPost))
    \/ \E user \in Desk : \E r \in reservations : \E q \in StatusRequests :
          login_required_view(user, "web_update", q.method,
              reservation_update_view(r, q.method, q.status_code, BrowserPost))
    \/ \E user \in Desk : \E method \in {"GET", "POST"} : \E id \in 1..MaxId :
          reservation_delete_view(user, method, id)
    \/ \E user \in Office : room_list_view(user)
    \/ \E method \in {"GET", "POST"} :
          room_create_view("anonymous", method, CHOOSE post \in RoomPosts : TRUE)
    \/ \E method \in {"GET", "POST"} :
          room_update_view("anonymous", method, 1, CHOOSE post \in RoomPosts : TRUE)
    \/ \E user \in Office : \E method \in {"GET", "POST"} :
          room_delete_view(user, method, 2)
    \/ \E user \in Office : room_type_list_view(user)
    \/ \E method \in {"GET", "POST"} :
          room_type_create_view("anonymous", method, RoomTypeRow("NEW", MaxGuests))
    \/ \E method \in {"GET", "POST"} :
          room_type_update_view("anonymous", method, "STD", RoomTypeRow("STD", MaxGuests))
    \/ \E method \in {"GET", "POST"} :
          room_type_delete_view("anonymous", method, "STD")
    \/ \E user \in Desk : \E method \in {"GET", "DELETE"} :
          APIGuest(user, method, 2)
    \/ \E user \in Desk : APIReservationList(user)
    \/ \E method \in {"GET", "POST", "PUT", "DELETE"} :
          APIRoom("anonymous", method, 1, CHOOSE data \in RoomPosts : TRUE)
    \/ \E method \in {"GET", "POST", "PUT", "DELETE"} :
          APIRoomType("anonymous", method, "STD", RoomTypeRow("NEW", MaxGuests))

SpecAuth == Init /\ [][NextAuth]_vars

\* ------------------------------------------------- vocabulary of the claims

\* half-open intervals [s1, e1) and [s2, e2) overlap
Overlap(s1, e1, s2, e2) == s1 < e2 /\ s2 < e1

\* the stored interval [start_of_stay, end_date) of a row, when it has one
HasInterval(r) == r.end_date # NULL

\* the last operation was a save() (of a new or of a loaded instance)
Saved == last.op \in {"create", "update"}

\* the stored rows other than the instance of the last save
OthersOf(table, self) == { r \in table : r.reservation_id # self.reservation_id }

\* some other stored row of the instance's room meets [start, start + length)
Conflict(table, self) ==
    \E r \in OthersOf(table, self) :
        /\ r.room_number = self.room_number
        /\ HasInterval(r)
        /\ r.start_of_stay < self.start_of_stay + self.length_of_stay
        /\ r.end_date > self.start_of_stay

\* the fields of the instance other than its stay are acceptable
FieldsValid(existing, self) ==
    /\ self.room_number \in existing
    /\ self.guest \in guests
    /\ self.length_of_stay >= 0
    /\ self.number_of_guests >= 1
    /\ self.number_of_guests <= maximum_guests(self.room_number)
    /\ self.amount_paid >= 0
    /\ self.amount_paid <= self.price

\* ------------------------------------------------------------------ claims

\* C1: no two stored reservations of the same non-null room have overlapping
\* intervals [start_of_stay, end_date), after any sequence of sequential
\* creates, updates and deletes through Reservation.save.
C1_NoDoubleBooking ==
    \A a \in reservations : \A b \in reservations :
        ( /\ a.reservation_id # b.reservation_id
          /\ a.room_number # NULL
          /\ a.room_number = b.room_number
          /\ HasInterval(a) /\ HasInterval(b) )
        => ~Overlap(a.start_of_stay, a.end_date, b.start_of_stay, b.end_date)

\* the requests of p and q ask for the same room on overlapping stays
SameRoomOverlapping(p, q) ==
    /\ requests[p].self.room_number = requests[q].self.room_number
    /\ Overlap(requests[p].self.start_of_stay,
               requests[p].self.start_of_stay + requests[p].self.length_of_stay,
               requests[q].self.start_of_stay,
               requests[q].self.start_of_stay + requests[q].self.length_of_stay)

\* C2: of two concurrently processed booking requests for the same room and
\* overlapping stays, exactly one is persisted and the other is rejected; a
\* state with both persisted is unreachable.
C2_ExactlyOnePersisted ==
    \A p \in Procs : \A q \in Procs :
        ( /\ p # q
          /\ requests[p].pc \in {"persisted", "rejected"}
          /\ requests[q].pc \in {"persisted", "rejected"}
          /\ SameRoomOverlapping(p, q) )
        => \/ requests[p].pc = "persisted" /\ requests[q].pc = "rejected"
           \/ requests[p].pc = "rejected" /\ requests[q].pc = "persisted"

\* C3: for an instance with a non-null room and length_of_stay >= 1 whose
\* clean() reaches the overlap validator, the validator raises if and only if
\* some other stored row of the room has start_of_stay < s + n and end_date > s.
C3_OverlapIff ==
    ( /\ Saved
      /\ last.self.room_number # NULL
      /\ last.self.length_of_stay >= 1
      /\ last.errors \cap {"number_of_guests", "amount_paid"} = {} )
    => ( ("overlap" \in last.errors) <=> Conflict(reservations, last.self) )

\* C3 witness: the validator has raised for a candidate whose stay runs into
\* the start of a stored stay of the same room
C3_Witness ==
    /\ Saved
    /\ last.self.length_of_stay >= 1
    /\ "overlap" \in last.errors
    /\ \E r \in OthersOf(reservations, last.self) :
          /\ r.room_number = last.self.room_number
          /\ last.self.start_of_stay < r.start_of_stay
          /\ r.start_of_stay < last.self.start_of_stay + last.self.length_of_stay
          /\ last.self.start_of_stay + last.self.length_of_stay < r.end_date

\* the stored rows of the instance's room, other than itself, that touch
\* [s, s + n) without entering it
Adjacent(r, self) ==
    /\ r.room_number = self.room_number
    /\ HasInterval(r)
    /\ \/ r.end_date = self.start_of_stay
       \/ r.start_of_stay = self.start_of_stay + self.length_of_stay

\* C4: a booking whose stay only touches the stored stays of its room (it
\* starts on an end_date, or ends on a start_of_stay) passes the overlap check
\* and, its other fields being acceptable, is persisted.
C4_AdjacentAccepted ==
    ( /\ Saved
      /\ last.self.room_number # NULL
      /\ last.self.length_of_stay >= 1
      /\ \E r \in OthersOf(reservations, last.self) : Adjacent(r, last.self)
      /\ \A r \in OthersOf(reservations, last.self) :
            r.room_number = last.self.room_number => Adjacent(r, last.self) )
    => /\ "overlap" \notin last.errors
       /\ FieldsValid(rooms, last.self)
            => last.errors = {} /\ last.self \in reservations

\* C4 witness: a booking has been persisted between two stays it touches
C4_Witness ==
    /\ last.op = "create"
    /\ last.errors = {}
    /\ last.self \in reservations
    /\ last.self.length_of_stay >= 1
    /\ \E r \in OthersOf(reservations, last.self) :
          /\ r.room_number = last.self.room_number
          /\ r.length_of_stay >= 1
          /\ r.end_date = last.self.start_of_stay

\* C5: a create rejected because of an overlapping stay persists nothing:
\* the table (and the id sequence) is the same before and after.
C5_RejectedCreatePersistsNothing ==
    [][ (last'.op = "create" /\ "overlap" \in last'.errors)
          => reservations' = reservations /\ nextId' = nextId ]_vars

\* C5 witness: a create has been rejected for an overlap
C5_Witness ==
    /\ last.op = "create"
    /\ "overlap" \in last.errors
    /\ reservations # {}

\* C6: an update whose new stay conflicts with another stored row of the
\* target room is rejected and the table keeps the row as it was; an update to
\* a stay without conflict, its other fields being acceptable, is stored.
C6_UpdateChecked ==
    [][ last'.op = "update" =>
          /\ Conflict(reservations', last'.self)
               => last'.errors # {} /\ reservations' = reservations
          /\ (~Conflict(reservations', last'.self) /\ FieldsValid(rooms', last'.self))
               => last'.errors = {} /\ last'.self \in reservations' ]_vars

\* C6 witness: an update that moved a reservation to the room of another one,
\* on overlapping dates, has been rejected
C6_Witness ==
    /\ last.op = "update"
    /\ "overlap" \in last.errors
    /\ \E r \in reservations :
          /\ r.reservation_id = last.self.reservation_id
          /\ r.room_number # last.self.room_number

\* C7: every stored reservation has end_date = start_of_stay + length_of_stay.
C7_EndDateDerived ==
    \A r \in reservations :
        r.end_date = r.start_of_stay + r.length_of_stay

\* C8: a save with length_of_stay >= 1 stores end_date = start_of_stay +
\* length_of_stay, whatever end_date the instance carried, and saving a stored
\* reservation again unchanged leaves its end_date as it was.
C8_EndDateComputed ==
    [][ /\ ( /\ last'.op \in {"create", "update"}
             /\ last'.errors = {}
             /\ last'.self.length_of_stay >= 1 )
           => \E r \in reservations' :
                 /\ r.reservation_id = last'.self.reservation_id
                 /\ r.start_of_stay = last'.self.start_of_stay
                 /\ r.length_of_stay = last'.self.length_of_stay
                 /\ r.end_date = r.start_of_stay + r.length_of_stay
        /\ \A r \in reservations :
             ( /\ last'.op = "update"
               /\ r.length_of_stay >= 1
               /\ r.end_date = r.start_of_stay + r.length_of_stay
               /\ [last'.self EXCEPT !.end_date = r.end_date] = r )
             => r \in reservations' ]_vars

\* C8 witness: a stored reservation has been saved again, successfully
C8_Witness ==
    /\ last.op = "update"
    /\ last.errors = {}
    /\ last.self.length_of_stay >= 1
    /\ last.self \in reservations
    /\ last.self.end_date = last.self.start_of_stay + last.self.length_of_stay

\* C9: no reservation with length_of_stay < 1 is ever persisted (a save with
\* length_of_stay = 0 is rejected with a validation error).
C9_LengthAtLeastOne ==
    \A r \in reservations : r.length_of_stay >= 1

\* a stored row of the room meets the search window [start_date, start_date + length_of_stay)
OverlapsWindow(r, room, data) ==
    /\ r.room_number = room
    /\ HasInterval(r)
    /\ Overlap(r.start_of_stay, r.end_date,
               data.start_date, data.start_date + data.length_of_stay)

\* C10: for a search with start_date and length_of_stay >= 1 the filter never
\* returns a room with a Reserved or Checked-In reservation overlapping the
\* window, and returns every room (of the requested type, if one is given)
\* that has no stored reservation overlapping the window.
C10_AvailableRooms ==
    ( /\ last.op = "search"
      /\ last.self.start_date # NULL
      /\ last.self.length_of_stay >= 1 )
    => /\ \A room \in last.result :
             ~ \E r \in reservations :
                 r.status_code \in {"RE", "IN"} /\ OverlapsWindow(r, room, last.self)
       /\ \A room \in rooms :
             ( /\ last.self.room_type \in {"", RoomTypeOf(room)}
               /\ ~ \E r \in reservations : OverlapsWindow(r, room, last.self) )
             => room \in last.result

\* C11: a room whose only stored reservations overlapping the search window
\* are Checked-Out is returned as available (Checked-Out reservations never
\* exclude a room from the availability result).
C11_CheckedOutNeverBlocks ==
    ( /\ last.op = "search"
      /\ last.self.start_date # NULL
      /\ last.self.length_of_stay >= 1 )
    => \A room \in rooms :
          ( /\ last.self.room_type \in {"", RoomTypeOf(room)}
            /\ \E r \in reservations : OverlapsWindow(r, room, last.self)
            /\ \A r \in reservations :
                  OverlapsWindow(r, room, last.self) => r.status_code = "OT" )
          => room \in last.result

\* C12: an availability search with length_of_stay < 1 is rejected with a
\* validation error instead of producing a room list.
C12_ShortSearchRejected ==
    ( /\ last.op = "search"
      /\ last.self.length_of_stay # NULL
      /\ last.self.length_of_stay < 1 )
    => last.errors # {}

\* C13: the status of a stored reservation follows Reserved -> Checked-In ->
\* Checked-Out: once a reservation is stored as Checked-Out, no later web
\* update (with or without ?status_code) or REST update stores it as Reserved
\* or Checked-In.
C13_NoTransitionOutOfCheckedOut ==
    [][ \A r \in reservations : \A q \in reservations' :
          (r.status_code = "OT" /\ q.reservation_id = r.reservation_id)
            => q.status_code = "OT" ]_vars

\* C14: a reservation created through the booking view or through the REST
\* create endpoint is stored with status Reserved ('RE').
C14_CreatedReserved ==
    ( /\ last.op \in {"web_create", "api_create"}
      /\ last.errors = {} )
    => \A r \in reservations :
          r.reservation_id = last.self.reservation_id => r.status_code = "RE"

\* the guest count of r is at least 1 and at most the capacity of its room's type
GuestCountValid(r) ==
    /\ r.number_of_guests >= 1
    /\ r.number_of_guests <= maximum_guests(r.room_number)

\* the row stored under the primary key of the instance of the last save
StoredOf(self) == { r \in reservations : r.reservation_id = self.reservation_id }

\* C15: every stored reservation of a room has 1 <= number_of_guests <=
\* maximum_guests of the room's type, and a save with a guest count above the
\* capacity or below 1 raises ValidationError and persists nothing (the
\* instance is not stored; an update leaves the row as it was, still valid).
C15_GuestCountBounded ==
    /\ \A r \in reservations : r.room_number # NULL => GuestCountValid(r)
    /\ ( /\ Saved
         /\ last.self.room_number # NULL
         /\ ~GuestCountValid(last.self) )
       => /\ "number_of_guests" \in last.errors
          /\ last.self \notin reservations
          /\ last.op = "update" => StoredOf(last.self) # {}

\* C15 witness: a reservation with as many guests as the larger room type
\* takes is stored, and its move to a room of the smaller type was rejected
C15_Witness ==
    /\ last.op = "update"
    /\ "number_of_guests" \in last.errors
    /\ last.self.number_of_guests = MaxGuests
    /\ maximum_guests(last.self.room_number) < MaxGuests
    /\ \E r \in StoredOf(last.self) :
          /\ r.number_of_guests = MaxGuests
          /\ maximum_guests(r.room_number) = MaxGuests

\* the payment of r is at least 0 and at most the price
PaymentValid(r) == r.amount_paid >= 0 /\ r.amount_paid <= r.price

\* C16: every stored reservation has 0 <= amount_paid <= price, and a save
\* with a negative amount_paid or with amount_paid above price raises
\* ValidationError and persists nothing.
C16_PaymentBounded ==
    /\ \A r \in reservations : PaymentValid(r)
    /\ (Saved /\ ~PaymentValid(last.self))
       => /\ last.errors # {}
          /\ last.self \notin reservations
          /\ last.op = "update" => StoredOf(last.self) # {}

\* C16 witness: a reservation paid in full is stored, and an update lowering
\* its price below the amount paid was rejected
C16_Witness ==
    /\ last.op = "update"
    /\ "amount_paid" \in last.errors
    /\ last.self.amount_paid > last.self.price
    /\ \E r \in StoredOf(last.self) :
          r.amount_paid = r.price /\ r.amount_paid = last.self.amount_paid

\* C17: deleting a room or a guest deletes no reservation: every reservation
\* that referred to the deleted record is still stored, with that reference
\* null and every other field as it was, and the other reservations are
\* untouched.
C17_DeleteNullsReference ==
    [][ /\ last'.op = "room_delete" =>
            /\ \A r \in reservations :
                  (IF r.room_number = last'.self
                     THEN [r EXCEPT !.room_number = NULL] ELSE r) \in reservations'
            /\ Cardinality(reservations') = Cardinality(reservations)
        /\ last'.op = "guest_delete" =>
            /\ \A r \in reservations :
                  (IF r.guest = last'.self
                     THEN [r EXCEPT !.guest = NULL] ELSE r) \in reservations'
            /\ Cardinality(reservations') = Cardinality(reservations) ]_vars

\* C17 witness: after the deletion of a room and of a guest, a reservation
\* that referred to both is stored without them, next to one that keeps its
\* room and its guest
C17_Witness ==
    /\ last.op = "guest_delete"
    /\ \E r \in reservations : \E q \in reservations :
          /\ r.room_number = NULL /\ r.guest = NULL
          /\ r.end_date = r.start_of_stay + r.length_of_stay
          /\ q.room_number \in rooms /\ q.guest \in guests

\* C18: for a reservation whose room reference is null the overlap validation
\* reports no conflict, whatever other reservations are stored (reservations
\* without a room and with overlapping dates included).
C18_NullRoomNoConflict ==
    (Saved /\ last.self.room_number = NULL) => "overlap" \notin last.errors

\* C19: the overlap check is scoped to one room: a booking for a room is
\* never rejected for an overlap because of the reservations stored for other
\* rooms, so bookings with overlapping dates on different rooms are both
\* persisted.
C19_OverlapScopedToRoom ==
    ( /\ Saved
      /\ last.self.room_number # NULL
      /\ \A r \in OthersOf(reservations, last.self) :
            r.room_number # last.self.room_number )
    => /\ "overlap" \notin last.errors
       /\ FieldsValid(rooms, last.self)
            => last.errors = {} /\ last.self \in reservations

\* C19 witness: a booking has been persisted while another room holds a
\* reservation on overlapping dates
C19_Witness ==
    /\ last.op = "create"
    /\ last.errors = {}
    /\ last.self \in reservations
    /\ \E r \in reservations :
          /\ r.room_number # NULL
          /\ r.room_number # last.self.room_number
          /\ HasInterval(r)
          /\ Overlap(r.start_of_stay, r.end_date,
                     last.self.start_of_stay,
                     last.self.start_of_stay + last.self.length_of_stay)

\* C20: a validation failure of a reservation (overlapping dates, guests
\* above the capacity, payment above the price) is reported to the caller as
\* a rejected operation by the web views and by the REST create and update
\* endpoints: the error never leaves the view unhandled.
C20_FailuresHandled ==
    ( /\ last.op \in {"web_create", "web_update", "api_create", "api_update"}
      /\ last.errors # {} )
    => ~last.escaped


\* the room type view wrote the row of the URL's room type
RoomTypeUpdated == last.op = "room_type_update" /\ last.outcome = "saved"

\* C21: a room type's identity is immutable: when room_type_update_view has
\* saved, the stored room type codes are the ones stored before, and every
\* room type other than the edited one is stored as it was
C21_RoomTypeIdentityImmutable ==
    [][RoomTypeUpdated' /\ last' # last =>
         /\ RoomTypeCodes' = RoomTypeCodes
         /\ \A type \in room_types :
               type.room_type_code # last'.key => type \in room_types']_vars

\* the request was made for a user who is not a logged-in manager
NotManager == "user" \in DOMAIN last /\ last.user # "manager"

\* the request was redirected to the login page or refused, and shown nothing
TurnedAway == last.outcome \in {"login", "refused"} /\ last.data = {}

\* the pages and endpoints that manage the rooms and the room types
Management ==
    { "room_list", "room_create", "room_update", "room_delete",
      "room_type_list", "room_type_create", "room_type_update",
      "room_type_delete", "api_room", "api_room_type" }

\* C22, as stated: no web view and no REST endpoint lists, creates, updates or
\* deletes a room or a room type for a user who is not a logged-in manager
C22_ManagerOnly == NotManager => TurnedAway

\* C22, amended: the pages and the REST endpoints that manage the rooms and
\* the room types turn away every user who is not a logged-in manager, and
\* leave the rooms and the room types as they were; the search for available
\* rooms lists rooms to every logged-in user
C22_ManagementManagerOnly ==
    [][NotManager' /\ last'.op \in Management =>
         TurnedAway' /\ UNCHANGED <<rooms, catalogue>>]_vars

\* a logged-in user without the Manager group was refused by a room endpoint
C22_Witness ==
    /\ last.op = "api_room" /\ last.user = "staff" /\ last.outcome = "refused"
    /\ rooms # {}

\* the request was made without a login
Anonymous == "user" \in DOMAIN last /\ last.user = "anonymous"

\* the REST list and detail endpoints
Endpoints == {"api_guest", "api_reservation", "api_room", "api_room_type"}

\* the stored guests, reservations, rooms and room types
tables == <<guests, reservations, rooms, catalogue>>

\* C23: a request without a login reads and changes no guest, reservation,
\* room or room type: every page but the login page (and the index of the
\* API, which has links only) answers with the redirect to the login page,
\* every REST list or detail endpoint refuses, nothing stored is shown and
\* the tables stay as they were
C23_AnonymousTurnedAway ==
    [][Anonymous' =>
         /\ last'.data = {}
         /\ UNCHANGED tables
         /\ last'.op \notin {"login", "api_root"} =>
              last'.outcome = IF last'.op \in Endpoints THEN "refused" ELSE "login"]_vars

\* the reservation list was asked for without a login while a reservation
\* was stored
C23_Witness ==
    /\ Anonymous /\ last.op = "reservation_list" /\ last.outcome = "login"
    /\ reservations # {}

\* the request was a GET to reservation_update_view, reservation_delete_view,
\* guest_delete_view or room_delete_view
GetOfWritingView ==
    \/ last.op = "web_update_get"
    \/ /\ "method" \in DOMAIN last /\ last.method = "GET"
       /\ last.op \in {"web_update", "reservation_delete", "guest_delete", "room_delete"}

\* C30: a GET to reservation_update_view (with or without ?status_code=IN or
\* OT), reservation_delete_view, guest_delete_view or room_delete_view leaves
\* every stored guest, reservation, room and room type as it was
C30_GetChangesNothing == [][GetOfWritingView' => UNCHANGED tables]_vars

\* the check-in form of a stored reservation was shown with the status IN
\* while the stored row is still reserved
C30_Witness ==
    /\ last.op = "web_update_get" /\ last.self.status_code = "IN"
    /\ \E r \in reservations :
          r.reservation_id = last.self.reservation_id /\ r.status_code = "RE"

\* the rooms the filter returns for the criteria of the last search when the
\* room type is left out of them
AnyType == filter_queryset(reservations, rooms, [last.self EXCEPT !.room_type = ""])

\* C24: a search with a room type returns rooms of that type only, and of
\* these exactly the ones the same search returns without the room type; a
\* search without a room type and without dates returns every room
C24_RoomTypeFilter ==
    last.op = "search" =>
      /\ last.self.room_type # "" =>
           /\ \A room \in last.result : room_type[room] = last.self.room_type
           /\ \A room \in rooms :
                 room_type[room] = last.self.room_type =>
                   (room \in last.result <=> room \in AnyType)
      /\ last.self.room_type = "" /\ last.self.start_date = NULL =>
           last.result = rooms

\* a search with dates and a room type returned a room while a room of
\* another type was free in the window and a room was reserved in it
C24_Witness ==
    /\ last.op = "search" /\ last.self.room_type # ""
    /\ last.self.start_date # NULL
    /\ last.result # {}
    /\ AnyType \ last.result # {}
    /\ reservations # {}

\* the last save was the update of a stored reservation whose room, start and
\* length are the stored ones
StatusOnlyUpdate ==
    /\ last.op = "update"
    /\ \E r \in reservations :
          /\ r.reservation_id = last.self.reservation_id
          /\ r.room_number = last.self.room_number
          /\ r.start_of_stay = last.self.start_of_stay
          /\ r.length_of_stay = last.self.length_of_stay

\* C25: the update of a stored reservation that changes its status only is
\* never rejected by the overlap check, whatever creates, updates and deletes
\* came before
C25_StatusUpdateNeverOverlaps == StatusOnlyUpdate => "overlap" \notin last.errors

\* a stored reservation of the room overlaps the stay [start, start + len)
RoomTaken(room, start, len) ==
    \E r \in reservations :
       /\ r.room_number = room
       /\ HasInterval(r)
       /\ Overlap(r.start_of_stay, r.end_date, start, start + len)

\* C26: in the web booking flow a booking for a room is accepted if and only
\* if no stored reservation of that room overlaps it; stored reservations
\* without a room never make it fail
C26_WebBookingIffRoomFree ==
    [][\A room \in Rooms :
          reservation_create_view(1, room, 0, 1, BrowserPost) =>
             (last'.errors = {} <=> ~ RoomTaken(room, 0, 1))]_vars

\* C27: availability and bookability agree: for a search by start date and
\* length of at least one night (no room type), a stored room is returned if
\* and only if a new reservation for it with that start and length passes
\* validate_to_detect_overlapping_reservation
C27_AvailableIffBookable ==
    ( /\ last.op = "search"
      /\ last.self.start_date # NULL
      /\ last.self.length_of_stay >= 1
      /\ last.self.room_type = "" )
    => \A room \in rooms :
          room \in last.result <=>
            ~ validate_to_detect_overlapping_reservation(reservations,
                  Instance(NULL, room, last.self.start_date,
                           last.self.length_of_stay, NULL, "RE", 1, 0))

\* the stored reservation has the start, the length, the price and the status
\* given
Preset(self, start, len, price, status) ==
    /\ self.start_of_stay = start /\ self.length_of_stay = len
    /\ self.price = price /\ self.status_code = status

\* C28: the fields the reservation form shows read-only are stored with the
\* values the view preset, whatever the request posts for them: a booking is
\* stored with the start and the length of the session, their price and the
\* status Reserved; an update is stored with the start, the length and the
\* price of the record and the status of the record or of ?status_code
C28_ReadOnlyFieldsPreset ==
    [][/\ \A room \in Rooms : \A start \in Days : \A post \in FormPosts :
             (reservation_create_view(1, room, start, 1, post) /\ last'.errors = {})
               => Preset(last'.self, start, 1, RoomTypePrice, "RE")
       /\ \A r \in reservations : \A status_code \in {"", "IN"} :
             \A post \in FormPosts :
                ( /\ reservation_update_view(r, "POST", status_code, post)
                  /\ last'.errors = {} )
                  => Preset(last'.self, r.start_of_stay, r.length_of_stay, r.price,
                            IF status_code = "IN" THEN "IN" ELSE r.status_code)]_vars

\* C29: available_rooms_list_view evaluates the filter with the effective
\* criteria (each one from the request, else from the session, else the
\* default), also when the request gives only some of them, and writes the
\* effective criteria to the session
C29_EffectiveCriteria ==
    [][(last'.op = "available_rooms" /\ last'.outcome = "ok") =>
         LET criteria == effective_criteria(last'.key, session)
         IN  /\ session' = criteria
             /\ last'.data =
                  { <<room, room_type[room]>> :
                      room \in filter_queryset(reservations, rooms, criteria) }]_vars
====
